---- MODULE Spec2Model ----
(***************************************************************************)
(* A model of NonogramSolver (nonogram_solver.py): the recursive line      *)
(* domain generator, the reduction passes and the solve() loop.            *)
(*                                                                         *)
(* Python lists are sequences (list index k is sequence index k + 1);      *)
(* numpy rows are functions over 0..size-1, indexed as in the source.      *)
(***************************************************************************)
EXTENDS Integers, Sequences, FiniteSets, TLC

\* Largest grid size N of the puzzles explored.
MaxSize == 3
\* A line spec may overshoot the line by at most this many cells.
MaxExcess == 2
\* Largest grid size of the puzzles whose line specs need not fit.
AnyMaxSize == 2
\* Largest line length given to generateDomain on its own (GenSpec).
GenMaxSize == 6
\* Largest line length and longest domain given to reduceDomain on its own
\* (ReduceSpec).
ReduceMaxSize == 2
ReduceMaxLen == 3

\* Most solve() calls made on one solver object.
MaxSolves == 2

VARIABLES
    size,               \* self.size
    rows,               \* self.rows: list of block-length lists
    cols,               \* self.cols
    row_domains,        \* self.row_domains: list of lists of rows
    col_domains,        \* self.col_domains
    known_rows,         \* self.known_rows
    known_cols,         \* self.known_cols
    known_intersects,   \* self.known_intersects: (is_searching_rows, line, cell)
    is_searching_rows,  \* self.is_searching_rows
    pc,                 \* where the caller / solve() stands
    line,               \* i of the for loop of reduceDomains
    pending,            \* the intersects of line i still to be applied
    round_start,        \* the store as it was when the current round began
    printed,            \* what the last print_board() call did
    stalled             \* the round before the current one changed nothing

vars == <<size, rows, cols, row_domains, col_domains, known_rows, known_cols,
          known_intersects, is_searching_rows, pc, line, pending, round_start,
          printed, stalled>>

-----------------------------------------------------------------------------
(* Helpers *)

Range(s) == {s[k] : k \in DOMAIN s}

RECURSIVE SeqSum(_)
SeqSum(s) == IF s = <<>> THEN 0 ELSE Head(s) + SeqSum(Tail(s))

\* sum(nums) + len(nums) - 1: the cells a spec needs (0 for no block).
Span(nums) == IF nums = <<>> THEN 0 ELSE SeqSum(nums) + Len(nums) - 1

\* np.full(size, False)
EmptyRow(N) == [c \in 0 .. N - 1 |-> FALSE]

-----------------------------------------------------------------------------
(* generateDomainHelper / generateDomain *)

\* The result of a generation: the list built so far and whether an
\* IndexError (a write at a cell >= size) ended it.
RECURSIVE generateDomainHelper(_, _, _, _, _, _, _, _)
RECURSIVE generateDomainLoop(_, _, _, _, _, _, _, _)

\* startBound without the mandatory gap after the previous block.
startBoundNoGap(last_start, last_num) ==
    IF last_start = -1 THEN 0 ELSE last_start + last_num

\* startBound leaving two cells after the previous block.
startBoundWideGap(last_start, last_num) ==
    IF last_start = -1 THEN 0 ELSE last_start + last_num + 2

\* Line 62: the first index the block could start at.
startBound(last_start, last_num) ==
    IF last_start = -1 THEN 0 ELSE last_start + last_num + 1

\* Lines 66-67: the fencepost correction of the exclusive end bound.
endBound(start, end) == IF start = end THEN end + 1 ELSE end

generateDomainHelper(N, nums, acc, row, last_start, last_num, index, sum) ==
    IF sum = 0
    THEN [acc EXCEPT !.domain = Append(@, row)]
    ELSE LET rest  == sum - nums[index + 1]
             start == startBound(last_start, last_num)
             end   == N - rest - Len(nums) + index - nums[index + 1] + 2
         IN  generateDomainLoop(N, nums, acc, row, index, rest, start,
                                endBound(start, end))

\* The for loop of lines 71-76, from i on.
generateDomainLoop(N, nums, acc, row, index, rest, i, end) ==
    IF acc.raised \/ i >= end
    THEN acc
    ELSE LET n == nums[index + 1]
             row_copy == [c \in 0 .. N - 1 |->
                             IF c >= i /\ c < i + n THEN TRUE ELSE row[c]]
         IN  IF i + n - 1 >= N
             THEN [acc EXCEPT !.raised = TRUE]
             ELSE generateDomainLoop(N, nums,
                      generateDomainHelper(N, nums, acc, row_copy, i, n,
                                           index + 1, rest),
                      row, index, rest, i + 1, end)

generateDomain(N, nums) ==
    generateDomainHelper(N, nums, [domain |-> <<>>, raised |-> FALSE],
                         EmptyRow(N), -1, -1, 0, SeqSum(nums))

-----------------------------------------------------------------------------
(* reduceDomain, reduceNeighborDomains, getDomainIntersects *)

\* reduceDomain deleting the candidates that agree with the forced value.
reduceDomainDeletesAgreeing(domain, index, value) ==
    IF Len(domain) = 1
    THEN domain
    ELSE SelectSeq(domain, LAMBDA cand : cand[index] # value)

\* reduceDomain writing the forced value into the candidates that differ
\* instead of deleting them.
reduceDomainOverwrites(domain, index, value) ==
    IF Len(domain) = 1
    THEN domain
    ELSE [k \in DOMAIN domain |-> [domain[k] EXCEPT ![index] = value]]

\* reduceDomain without the early return on a solved domain.
reduceDomainPrunesSolved(domain, index, value) ==
    SelectSeq(domain, LAMBDA cand : cand[index] = value)

\* reduceDomain deleting nothing.
reduceDomainKeepsAll(domain, index, value) == domain

\* reduceDomain leaving its loop after the first deletion.
reduceDomainDeletesOne(domain, index, value) ==
    IF Len(domain) = 1 \/ \A k \in DOMAIN domain : domain[k][index] = value
    THEN domain
    ELSE LET d == CHOOSE k \in DOMAIN domain :
                      /\ domain[k][index] # value
                      /\ \A h \in k + 1 .. Len(domain) : domain[h][index] = value
         IN  [k \in 1 .. Len(domain) - 1 |->
                 IF k < d THEN domain[k] ELSE domain[k + 1]]

\* del domain[i] for every i whose cell differs, unless the domain is solved.
reduceDomain(domain, index, value) ==
    IF Len(domain) = 1
    THEN domain
    ELSE SelectSeq(domain, LAMBDA cand : cand[index] = value)

\* reduceNeighborDomains pruning solved domains too.
reduceNeighborDomainsPrunesSolved(known_domain, unknown_domains, index, searching, known) ==
    [k \in DOMAIN unknown_domains |->
        IF /\ k - 1 \in DOMAIN known_domain
           /\ ~known_domain[k - 1]
           /\ <<searching, index, k - 1>> \notin known
        THEN SelectSeq(unknown_domains[k], LAMBDA cand : ~cand[index])
        ELSE unknown_domains[k]]

\* The new unknown_domains: for every False cell i of the known line whose
\* triple is not recorded, the candidates of unknown_domains[i] that are
\* True at index are deleted (only if more than one candidate is left).
reduceNeighborDomains(known_domain, unknown_domains, index, searching, known) ==
    [k \in DOMAIN unknown_domains |->
        IF /\ k - 1 \in DOMAIN known_domain
           /\ ~known_domain[k - 1]
           /\ Len(unknown_domains[k]) > 1
           /\ <<searching, index, k - 1>> \notin known
        THEN SelectSeq(unknown_domains[k], LAMBDA cand : ~cand[index])
        ELSE unknown_domains[k]]

\* The flags of lines 137-144 after the scan of cell i over the domain.
allTrue(domain, i)  == \A k \in DOMAIN domain : domain[k][i]
allFalse(domain, i) == \A k \in DOMAIN domain : ~domain[k][i]

\* The intersects list, cells i .. width-1 (the domain is not empty).
RECURSIVE intersectsFrom(_, _, _, _, _)
intersectsFrom(domain, index, searching, known, i) ==
    IF i \notin DOMAIN domain[1]
    THEN <<>>
    ELSE LET here == IF <<searching, index, i>> \in known
                     THEN <<>>
                     ELSE (IF allTrue(domain, i) THEN << <<i, TRUE>> >> ELSE <<>>)
                          \o (IF allFalse(domain, i) THEN << <<i, FALSE>> >> ELSE <<>>)
         IN  here \o intersectsFrom(domain, index, searching, known, i + 1)

\* getDomainIntersects reporting the cells forced to True only.
getDomainIntersectsTrueOnly(domain, index, searching, known) ==
    SelectSeq(intersectsFrom(domain, index, searching, known, 0),
              LAMBDA intersect : intersect[2])

\* getDomainIntersects reporting recorded cells again.
getDomainIntersectsAgain(domain, index, searching, known) ==
    intersectsFrom(domain, index, searching, {}, 0)

getDomainIntersects(domain, index, searching, known) ==
    intersectsFrom(domain, index, searching, known, 0)

-----------------------------------------------------------------------------
(* reduceDomains as one call *)

\* Lines 166-170: the intersects applied to domains_b, first to last.
RECURSIVE applyIntersects(_, _, _)
applyIntersects(b, intersects, index) ==
    IF intersects = <<>>
    THEN b
    ELSE applyIntersects(
             [b EXCEPT ![Head(intersects)[1] + 1] =
                 reduceDomain(@, index, Head(intersects)[2])],
             Tail(intersects), index)

\* Lines 160-170 for line i.  st holds domains_a, known_domains_a, domains_b
\* and known_intersects; neighbours tells whether line 162 is executed.
reduceDomainsLine(st, i, searching, neighbours) ==
    IF i \in st.known_a
    THEN st
    ELSE LET domain == st.a[i + 1]
             collapsed == Len(domain) = 1
             b == IF collapsed /\ neighbours
                  THEN reduceNeighborDomains(domain[1], st.b, i, searching,
                                             st.known)
                  ELSE st.b
             intersects == getDomainIntersects(domain, i, searching, st.known)
         IN  IF domain = <<>>
             THEN [st EXCEPT !.raised = TRUE]
             ELSE [a |-> st.a,
                   known_a |-> IF collapsed THEN st.known_a \cup {i}
                               ELSE st.known_a,
                   b |-> applyIntersects(b, intersects, i),
                   known |-> st.known \cup
                       {<<searching, i, intersects[k][1]>> :
                            k \in DOMAIN intersects},
                   raised |-> FALSE]

\* Line 159: the lines i .. of domains_a, until one raises.
RECURSIVE reduceDomainsFrom(_, _, _, _)
reduceDomainsFrom(st, i, searching, neighbours) ==
    IF st.raised \/ i >= Len(st.a)
    THEN st
    ELSE reduceDomainsFrom(reduceDomainsLine(st, i, searching, neighbours),
                           i + 1, searching, neighbours)

reduceDomains(a, known_a, b, known, searching) ==
    reduceDomainsFrom([a |-> a, known_a |-> known_a, b |-> b, known |-> known,
                       raised |-> FALSE], 0, searching, TRUE)

-----------------------------------------------------------------------------
(* Puzzles *)

\* The block-length lists (positive integers) that need at most room cells.
RECURSIVE SpecsWithin(_)
SpecsWithin(room) ==
    IF room < 1
    THEN {<<>>}
    ELSE {<<>>} \cup UNION {{<<b>> \o t : t \in SpecsWithin(room - b - 1)} :
                              b \in 1 .. room}

Fits(N, nums) == Span(nums) <= N
FitSpecs(N) == SpecsWithin(N)
LineSpecs(N) == SpecsWithin(N + MaxExcess)

Store == <<row_domains, col_domains, known_rows, known_cols, known_intersects>>

NotPrinted == [kind |-> "none", board |-> <<>>, reads |-> {}]

\* __init__ (lines 37-40) on a puzzle file holding (N, rs, cs).
Construct(N, rs, cs) ==
    /\ size = N
    /\ rows = rs
    /\ cols = cs
    /\ row_domains = <<>>
    /\ col_domains = <<>>
    /\ known_rows = {}
    /\ known_cols = {}
    /\ known_intersects = {}
    /\ is_searching_rows = TRUE
    /\ pc = "new"
    /\ line = 0
    /\ pending = <<>>
    /\ round_start = <<>>
    /\ printed = NotPrinted
    /\ stalled = FALSE

\* Every puzzle up to MaxSize whose line specs all fit, and every puzzle up
\* to AnyMaxSize whose line specs overshoot the line by up to MaxExcess.
Init ==
    \/ \E N \in 1 .. MaxSize :
          \E rs \in [1 .. N -> FitSpecs(N)], cs \in [1 .. N -> FitSpecs(N)] :
              Construct(N, rs, cs)
    \/ \E N \in 1 .. AnyMaxSize :
          \E rs \in [1 .. N -> LineSpecs(N)], cs \in [1 .. N -> LineSpecs(N)] :
              Construct(N, rs, cs)

-----------------------------------------------------------------------------
(* solve() *)

\* Lines 180-183: the domains of specs[from..], appended to acc until a
\* generation raises.
RECURSIVE generateAll(_, _, _, _)
generateAll(N, specs, acc, from) ==
    IF acc.raised \/ from > Len(specs)
    THEN acc
    ELSE LET g == generateDomain(N, specs[from])
         IN  generateAll(N, specs,
                 IF g.raised
                 THEN [acc EXCEPT !.raised = TRUE]
                 ELSE [acc EXCEPT !.domains = Append(@, g.domain)],
                 from + 1)

\* solve() is called on a new solver, or called again after it returned.
Generate ==
    /\ \/ pc = "new"
       \/ pc = "returned" /\ Len(row_domains) < MaxSolves * size
    /\ LET r == generateAll(size, rows, [domains |-> row_domains, raised |-> FALSE], 1)
           c == IF r.raised
                THEN [domains |-> col_domains, raised |-> TRUE]
                ELSE generateAll(size, cols,
                                 [domains |-> col_domains, raised |-> FALSE], 1)
       IN  /\ row_domains' = r.domains
           /\ col_domains' = c.domains
           /\ pc' = IF c.raised THEN "raised" ELSE "loop"
    /\ UNCHANGED <<size, rows, cols, known_rows, known_cols, known_intersects,
                   is_searching_rows, line, pending, round_start, printed,
                   stalled>>

\* The while condition with "or": loop until both known sets are full.
UnsolvedEither ==
    Cardinality(known_rows) # size \/ Cardinality(known_cols) # size

\* The while condition stopping as soon as any line is known.
UnsolvedUntilAnyKnown == known_rows = {} /\ known_cols = {}

\* The while condition extended by a no-progress check.
UnsolvedAndProgressing ==
    /\ Cardinality(known_rows) # size /\ Cardinality(known_cols) # size
    /\ round_start # Store

\* Line 185: the while condition.
Unsolved == Cardinality(known_rows) # size /\ Cardinality(known_cols) # size

LoopEnter ==
    /\ pc = "loop"
    /\ Unsolved
    /\ pc' = "rowPass"
    /\ line' = 0
    /\ round_start' = Store
    /\ stalled' = (round_start = Store)
    /\ UNCHANGED <<size, rows, cols, row_domains, col_domains, known_rows,
                   known_cols, known_intersects, is_searching_rows, pending,
                   printed>>

LoopExit ==
    /\ pc = "loop"
    /\ ~Unsolved
    /\ pc' = "returned"
    /\ UNCHANGED <<size, rows, cols, row_domains, col_domains, known_rows,
                   known_cols, known_intersects, is_searching_rows, line,
                   pending, round_start, printed, stalled>>

\* Control is inside solve(), past the generation.
InSolve == pc \in {"loop", "rowPass", "colPass"}
InPass == pc \in {"rowPass", "colPass"}
domains_a == IF pc = "rowPass" THEN row_domains ELSE col_domains
domains_b == IF pc = "rowPass" THEN col_domains ELSE row_domains
known_domains_a == IF pc = "rowPass" THEN known_rows ELSE known_cols

\* Line 160: a line already known is skipped.
SkipKnownLine ==
    /\ InPass
    /\ pending = <<>>
    /\ line < Len(domains_a)
    /\ line \in known_domains_a
    /\ line' = line + 1
    /\ UNCHANGED <<size, rows, cols, row_domains, col_domains, known_rows,
                   known_cols, known_intersects, is_searching_rows, pc,
                   pending, round_start, printed, stalled>>

\* Lines 161-165: a collapsed line prunes its neighbours and becomes known;
\* then its intersects are computed (domain[0] of an empty domain raises).
ReduceLine ==
    /\ InPass
    /\ pending = <<>>
    /\ line < Len(domains_a)
    /\ line \notin known_domains_a
    /\ LET domain == domains_a[line + 1]
           collapsed == Len(domain) = 1
           b == IF collapsed
                THEN reduceNeighborDomains(domain[1], domains_b, line,
                                           is_searching_rows, known_intersects)
                ELSE domains_b
           ka == IF collapsed THEN known_domains_a \cup {line}
                 ELSE known_domains_a
           intersects == IF domain = <<>> THEN <<>>
                         ELSE getDomainIntersects(domain, line,
                                  is_searching_rows, known_intersects)
       IN  /\ row_domains' = IF pc = "rowPass" THEN row_domains ELSE b
           /\ col_domains' = IF pc = "rowPass" THEN b ELSE col_domains
           /\ known_rows' = IF pc = "rowPass" THEN ka ELSE known_rows
           /\ known_cols' = IF pc = "rowPass" THEN known_cols ELSE ka
           /\ pending' = intersects
           /\ pc' = IF domain = <<>> THEN "raised" ELSE pc
           /\ line' = IF domain # <<>> /\ intersects = <<>> THEN line + 1 ELSE line
    /\ UNCHANGED <<size, rows, cols, known_intersects, is_searching_rows,
                   round_start, printed, stalled>>

\* Lines 166-170: one intersect prunes the crossing domain and is recorded.
ApplyIntersect ==
    /\ InPass
    /\ pending # <<>>
    /\ LET intersect == Head(pending)
           b == [domains_b EXCEPT ![intersect[1] + 1] =
                    reduceDomain(@, line, intersect[2])]
       IN  /\ row_domains' = IF pc = "rowPass" THEN row_domains ELSE b
           /\ col_domains' = IF pc = "rowPass" THEN b ELSE col_domains
           /\ known_intersects' = known_intersects \cup
                                    {<<is_searching_rows, line, intersect[1]>>}
    /\ pending' = Tail(pending)
    /\ line' = IF Tail(pending) = <<>> THEN line + 1 ELSE line
    /\ UNCHANGED <<size, rows, cols, known_rows, known_cols, is_searching_rows,
                   pc, round_start, printed, stalled>>

\* Lines 188-189: after the row pass.
RowPassEnd ==
    /\ pc = "rowPass"
    /\ pending = <<>>
    /\ line = Len(row_domains)
    /\ is_searching_rows' = ~is_searching_rows
    /\ pc' = IF Cardinality(known_rows) # size THEN "colPass" ELSE "loop"
    /\ line' = 0
    /\ UNCHANGED <<size, rows, cols, row_domains, col_domains, known_rows,
                   known_cols, known_intersects, pending, round_start, printed,
                   stalled>>

\* Line 192: after the column pass.
ColPassEnd ==
    /\ pc = "colPass"
    /\ pending = <<>>
    /\ line = Len(col_domains)
    /\ is_searching_rows' = ~is_searching_rows
    /\ pc' = "loop"
    /\ line' = 0
    /\ UNCHANGED <<size, rows, cols, row_domains, col_domains, known_rows,
                   known_cols, known_intersects, pending, round_start, printed,
                   stalled>>

\* The caller runs reduceDomains(row_domains, known_rows, col_domains) once
\* more on a solver whose single solve() returned.
ExtraRowPass ==
    /\ pc = "returned"
    /\ Len(row_domains) = size
    /\ LET r == reduceDomains(row_domains, known_rows, col_domains,
                              known_intersects, is_searching_rows)
       IN  /\ known_rows' = r.known_a
           /\ col_domains' = r.b
           /\ known_intersects' = r.known
           /\ pc' = IF r.raised THEN "raised" ELSE "reranRows"
    /\ UNCHANGED <<size, rows, cols, row_domains, known_cols, is_searching_rows,
                   line, pending, round_start, printed, stalled>>

\* The same with reduceDomains(col_domains, known_cols, row_domains).
ExtraColPass ==
    /\ pc = "returned"
    /\ Len(col_domains) = size
    /\ LET r == reduceDomains(col_domains, known_cols, row_domains,
                              known_intersects, is_searching_rows)
       IN  /\ known_cols' = r.known_a
           /\ row_domains' = r.b
           /\ known_intersects' = r.known
           /\ pc' = IF r.raised THEN "raised" ELSE "reranCols"
    /\ UNCHANGED <<size, rows, cols, col_domains, known_rows, is_searching_rows,
                   line, pending, round_start, printed, stalled>>

-----------------------------------------------------------------------------
(* print_board() *)

\* Control is with the caller: before solve(), or after it returned or raised.
AtCaller == pc \in {"new", "returned", "raised"}

\* The cell read at output line i, column j (line 229).
boardRead(by_rows, i, j) ==
    IF by_rows THEN <<TRUE, i, j>> ELSE <<FALSE, j, i>>

\* Whether solved_domains[l][0][c] exists.
readable(solved_domains, l, c) ==
    /\ l + 1 \in DOMAIN solved_domains
    /\ solved_domains[l + 1] # <<>>
    /\ c \in DOMAIN solved_domains[l + 1][1]

\* The readiness test satisfied by any known line.
boardReadyAny == known_rows # {} \/ known_cols # {}

\* Lines 219-225: some known set has reached the size.
boardReady == Cardinality(known_rows) = size \/ Cardinality(known_cols) = size

print_board ==
    IF ~boardReady
    THEN [kind |-> "error", board |-> <<>>, reads |-> {}]
    ELSE LET by_rows == Cardinality(known_rows) = size
             solved_domains == IF by_rows THEN row_domains ELSE col_domains
             span == 0 .. Len(solved_domains) - 1
             reads == {boardRead(by_rows, i, j) : i \in span, j \in span}
         IN  IF \E rd \in reads : ~readable(solved_domains, rd[2], rd[3])
             THEN [kind |-> "raised", board |-> <<>>, reads |-> reads]
             ELSE [kind |-> "board",
                   board |-> [i \in span |-> [j \in span |->
                       LET rd == boardRead(by_rows, i, j)
                       IN  solved_domains[rd[2] + 1][1][rd[3]]]],
                   reads |-> reads]

PrintBoard ==
    /\ AtCaller
    /\ printed' = print_board
    /\ UNCHANGED <<size, rows, cols, row_domains, col_domains, known_rows,
                   known_cols, known_intersects, is_searching_rows, pc, line,
                   pending, round_start, stalled>>

-----------------------------------------------------------------------------

Next ==
    \/ Generate
    \/ LoopEnter
    \/ LoopExit
    \/ SkipKnownLine
    \/ ReduceLine
    \/ ApplyIntersect
    \/ RowPassEnd
    \/ ColPassEnd
    \/ ExtraRowPass
    \/ ExtraColPass
    \/ PrintBoard

Spec == Init /\ [][Next]_vars

-----------------------------------------------------------------------------
(* The generator on its own: one generateDomain(nums) call on a solver of  *)
(* line length size, its result appended as at line 181.                   *)

GenInit ==
    \E N \in 1 .. GenMaxSize :
        \E nums \in LineSpecs(N) :
            Construct(N, <<nums>>, <<>>)

GenerateLine ==
    /\ pc = "new"
    /\ LET g == generateDomain(size, rows[1])
       IN  /\ row_domains' = IF g.raised THEN row_domains
                              ELSE Append(row_domains, g.domain)
           /\ pc' = IF g.raised THEN "raised" ELSE "generated"
    /\ UNCHANGED <<size, rows, cols, col_domains, known_rows, known_cols,
                   known_intersects, is_searching_rows, line, pending,
                   round_start, printed, stalled>>

GenNext == GenerateLine

GenSpec == GenInit /\ [][GenNext]_vars

-----------------------------------------------------------------------------
(* reduceDomain on its own: lines 166-170 of a row pass at line index, with *)
(* the intersect (0, value) to apply twice to any domain of candidates.     *)

\* Every list of at most ReduceMaxLen boolean lines of length N.
DomainsUpTo(N) ==
    UNION {[1 .. n -> [0 .. N - 1 -> BOOLEAN]] : n \in 0 .. ReduceMaxLen}

ReduceInit ==
    \E N \in 1 .. ReduceMaxSize :
        \E domain \in DomainsUpTo(N), index \in 0 .. N - 1, value \in BOOLEAN :
            /\ size = N
            /\ rows = <<>>
            /\ cols = <<>>
            /\ row_domains = <<>>
            /\ col_domains = <<domain>>
            /\ known_rows = {}
            /\ known_cols = {}
            /\ known_intersects = {}
            /\ is_searching_rows = TRUE
            /\ pc = "rowPass"
            /\ line = index
            /\ pending = << <<0, value>>, <<0, value>> >>
            /\ round_start = Store
            /\ printed = NotPrinted
            /\ stalled = FALSE

ReduceNext == ApplyIntersect

ReduceSpec == ReduceInit /\ [][ReduceNext]_vars

-----------------------------------------------------------------------------
(* Reference notions the properties are stated with *)

\* The lengths of the maximal True-runs of cells i .. N-1 of f, left to
\* right, given that cur True cells immediately precede cell i.
RECURSIVE RunsFrom(_, _, _, _)
RunsFrom(f, N, i, cur) ==
    IF i = N
    THEN (IF cur > 0 THEN <<cur>> ELSE <<>>)
    ELSE IF f[i]
         THEN RunsFrom(f, N, i + 1, cur + 1)
         ELSE (IF cur > 0 THEN <<cur>> ELSE <<>>) \o RunsFrom(f, N, i + 1, 0)

Runs(f, N) == RunsFrom(f, N, 0, 0)

\* Every boolean line of length N whose True-runs are nums.
ValidFillings(N, nums) == {f \in [0 .. N - 1 -> BOOLEAN] : Runs(f, N) = nums}

\* ValidFillings, tabulated for the puzzles of Spec.
Fillings ==
    [N \in 1 .. MaxSize |-> [nums \in LineSpecs(N) |-> ValidFillings(N, nums)]]

\* Column c of a board given as the sequence of its rows.
Column(board, N, c) == [r \in 0 .. N - 1 |-> board[r + 1][c]]

\* The boards whose first k rows are drawn from the valid fillings of rs.
RECURSIVE BoardsOfRows(_, _, _)
BoardsOfRows(N, rs, k) ==
    IF k = 0
    THEN {<<>>}
    ELSE {Append(b, f) : b \in BoardsOfRows(N, rs, k - 1),
                         f \in Fillings[N][rs[k]]}

\* The solution boards of the puzzle (N, rs, cs).
Solutions(N, rs, cs) ==
    {b \in BoardsOfRows(N, rs, N) :
        \A c \in 0 .. N - 1 : Runs(Column(b, N, c), N) = cs[c + 1]}

\* The domains as generated, before any reduction.
Generated(specs, k) == generateDomain(size, specs[k]).domain

IsPuzzle == Len(rows) = size /\ Len(cols) = size

HasDuplicates(seq) == \E a, b \in DOMAIN seq : a # b /\ seq[a] = seq[b]

-----------------------------------------------------------------------------
(* C1 *)

\* C1: soundness. For every puzzle that has a solution board, in every state
\* of solve() from the generation phase on, each row domain contains that
\* board's row and each column domain contains that board's column, so no
\* domain of such a puzzle is ever empty.
Soundness ==
    (pc # "new" /\ IsPuzzle) =>
        \A b \in Solutions(size, rows, cols) :
            /\ pc # "raised"
            /\ Len(row_domains) >= size /\ Len(col_domains) >= size
            /\ \A k \in 1 .. size :
                /\ b[k] \in Range(row_domains[k])
                /\ Column(b, size, k - 1) \in Range(col_domains[k])
                /\ row_domains[k] # <<>> /\ col_domains[k] # <<>>

\* A solvable puzzle in the middle of a column pass, after candidates were
\* removed from both a row domain and a column domain.
SoundnessWitness ==
    /\ IsPuzzle
    /\ pc = "colPass"
    /\ Solutions(size, rows, cols) # {}
    /\ \E k \in 1 .. size :
        /\ Len(row_domains[k]) > 1
        /\ Len(row_domains[k]) < Len(Generated(rows, k))
    /\ \E k \in 1 .. size : Len(col_domains[k]) < Len(Generated(cols, k))

-----------------------------------------------------------------------------
(* C2, C3: the generator (GenSpec) *)

\* C2: for nums that fits the line, generateDomain(nums) returns exactly the
\* boolean lines of length N whose True-runs are nums, each exactly once; for
\* an empty nums it returns the single all-False line.
GeneratesExactlyTheFillings ==
    (pc # "new" /\ Fits(size, rows[1])) =>
        /\ pc = "generated"
        /\ Range(row_domains[1]) = ValidFillings(size, rows[1])
        /\ ~HasDuplicates(row_domains[1])
        /\ rows[1] = <<>> => row_domains[1] = <<EmptyRow(size)>>

\* A two-block spec with slack: several placements of each block.
GeneratesWitness ==
    /\ pc = "generated"
    /\ Fits(size, rows[1])
    /\ Len(rows[1]) >= 2
    /\ Len(row_domains[1]) >= 3

\* C3: for nums that does not fit, by one cell or by more, generateDomain(nums)
\* raises nothing, writes no cell outside 0..N-1 and returns an empty domain;
\* and it returns an empty domain only for such nums.
NonFittingGivesEmpty ==
    pc # "new" =>
        /\ ~Fits(size, rows[1]) => (pc = "generated" /\ row_domains[1] = <<>>)
        /\ (pc = "generated" /\ row_domains[1] = <<>>) => ~Fits(size, rows[1])

-----------------------------------------------------------------------------
(* C4 *)

\* s is t with some elements deleted (order kept, no element altered).
RECURSIVE IsSubSeq(_, _)
IsSubSeq(s, t) ==
    IF s = <<>> THEN TRUE
    ELSE IF t = <<>> THEN FALSE
    ELSE IF Head(s) = Head(t) THEN IsSubSeq(Tail(s), Tail(t))
    ELSE IsSubSeq(s, Tail(t))

Shrinks(before, after) ==
    /\ Len(after) = Len(before)
    /\ \A k \in DOMAIN before : IsSubSeq(after[k], before[k])

\* C4: monotonicity. Once the domains are generated, every step of the
\* propagation loop (and of a pass run after it) leaves each line's domain
\* what it was with some candidates deleted: no domain grows, no candidate is
\* added or altered.
Monotonic ==
    [][(InSolve \/ (pc = "returned" /\ pc' # "loop")) =>
          /\ Shrinks(row_domains, row_domains')
          /\ Shrinks(col_domains, col_domains')]_vars

\* solve() has returned after deleting candidates of a row and of a column.
MonotonicWitness ==
    /\ IsPuzzle
    /\ pc = "returned"
    /\ \E k \in 1 .. size : Len(row_domains[k]) < Len(Generated(rows, k))
    /\ \E k \in 1 .. size : Len(col_domains[k]) < Len(Generated(cols, k))

-----------------------------------------------------------------------------
(* C5 *)

RowsKnown == Cardinality(known_rows) = size
ColsKnown == Cardinality(known_cols) = size

AllSingletons(domains) == \A k \in 1 .. size : Len(domains[k]) = 1

\* C5: the stop condition. At the loop test solve() starts another round
\* exactly while neither known set has size N and returns otherwise; after the
\* row pass the column pass runs unless all rows are known; and when solve()
\* has returned, a known set has size N and every line of an orientation
\* whose known set has size N has exactly one candidate.
StopCondition ==
    [][/\ pc = "loop" =>
            pc' = (IF RowsKnown \/ ColsKnown THEN "returned" ELSE "rowPass")
       /\ (pc = "rowPass" /\ pc' \notin {"rowPass", "raised"}) =>
            pc' = (IF RowsKnown THEN "loop" ELSE "colPass")
       /\ (pc = "colPass" /\ pc' \notin {"colPass", "raised"}) => pc' = "loop"
       /\ pc' = "returned" =>
            /\ RowsKnown' \/ ColsKnown'
            /\ RowsKnown' => AllSingletons(row_domains')
            /\ ColsKnown' => AllSingletons(col_domains')]_vars

\* On a solvable puzzle solve() has returned because the columns collapsed,
\* before all rows were known.
StopWitness ==
    /\ IsPuzzle
    /\ Solutions(size, rows, cols) # {}
    /\ pc = "returned"
    /\ ColsKnown
    /\ ~RowsKnown

-----------------------------------------------------------------------------
(* C6 *)

\* Cell (r, c) of the board read from the collapsed orientation.
BoardCell(r, c) ==
    IF RowsKnown THEN row_domains[r + 1][1][c] ELSE col_domains[c + 1][1][r]

BoardRow(r) == [c \in 0 .. size - 1 |-> BoardCell(r, c)]
BoardCol(c) == [r \in 0 .. size - 1 |-> BoardCell(r, c)]

\* C6: whenever solve() returns, the board read from the collapsed
\* orientation has in every row the True-runs of the row spec and in every
\* column those of the column spec, and every singleton domain of the other
\* orientation agrees with the board.
BoardConsistent ==
    (pc = "returned" /\ IsPuzzle) =>
        /\ \A r \in 0 .. size - 1 : Runs(BoardRow(r), size) = rows[r + 1]
        /\ \A c \in 0 .. size - 1 : Runs(BoardCol(c), size) = cols[c + 1]
        /\ \A k \in 1 .. size :
            /\ Len(row_domains[k]) = 1 => row_domains[k][1] = BoardRow(k - 1)
            /\ Len(col_domains[k]) = 1 => col_domains[k][1] = BoardCol(k - 1)

-----------------------------------------------------------------------------
(* C7 *)

\* C7: when a full round ends with the store as it was when the round began
\* and the stop condition unmet, solve() fails with a "not solvable by
\* propagation alone" outcome instead of starting another round.
NoProgressDetected ==
    [][(pc = "loop" /\ ~RowsKnown /\ ~ColsKnown /\ round_start = Store) =>
          pc' = "not_solvable"]_vars

-----------------------------------------------------------------------------
(* C8 *)

AnyEmptyDomain ==
    \/ \E k \in DOMAIN row_domains : row_domains[k] = <<>>
    \/ \E k \in DOMAIN col_domains : col_domains[k] = <<>>

\* C8: if a domain is empty right after the generation phase, solve() reports
\* an "unsatisfiable puzzle" outcome before any reduction pass, leaving the
\* domains, the known sets and the known intersects as they are.
EmptyDomainFailsFast ==
    [][(pc = "loop" /\ round_start = <<>> /\ AnyEmptyDomain) =>
          (pc' = "unsatisfiable" /\ Store' = Store)]_vars

-----------------------------------------------------------------------------
(* C9 *)

\* The intersect about to be applied finds a crossing domain, not empty, none
\* of whose candidates has the forced value at the crossing cell.
Contradiction ==
    /\ InPass
    /\ pending # <<>>
    /\ LET target == domains_b[Head(pending)[1] + 1]
       IN  /\ target # <<>>
           /\ \A k \in DOMAIN target : target[k][line] # Head(pending)[2]

NoDomainEmptied(before, after) ==
    \A k \in DOMAIN before : before[k] # <<>> => after[k] # <<>>

\* C9: whenever a forced fact is applied to a perpendicular domain none of
\* whose candidates has the forced value at the crossing cell (a singleton
\* included), the engine reports an "unsatisfiable puzzle" outcome; and no
\* reduction leaves a domain empty.
ContradictionFailsFast ==
    [][/\ Contradiction => pc' = "unsatisfiable"
       /\ pc # "new" =>
            /\ NoDomainEmptied(row_domains, row_domains')
            /\ NoDomainEmptied(col_domains, col_domains')]_vars

-----------------------------------------------------------------------------
(* C10 *)

\* C10: while neither known set has size N, a board request yields the
\* explicit failure and reads no cell of any domain; a board is produced only
\* when a known set has size N, from singleton domains.
QueryBeforeReady ==
    /\ [](AtCaller /\ ~RowsKnown /\ ~ColsKnown =>
             print_board = [kind |-> "error", board |-> <<>>, reads |-> {}])
    /\ [][printed' # printed =>
             /\ ~(RowsKnown \/ ColsKnown) =>
                    (printed'.kind = "error" /\ printed'.reads = {})
             /\ printed'.kind = "board" =>
                    /\ RowsKnown \/ ColsKnown
                    /\ RowsKnown => AllSingletons(row_domains)
                    /\ (~RowsKnown /\ ColsKnown) =>
                           AllSingletons(col_domains)]_vars

\* The board was requested after solve() raised with only some rows known.
QueryWitness ==
    /\ pc = "raised"
    /\ printed.kind = "error"
    /\ known_rows # {}
    /\ ~RowsKnown /\ ~ColsKnown

-----------------------------------------------------------------------------
(* C11 *)

\* A reduceDomains call made by the caller after solve() returned.
ExtraPassStep ==
    pc = "returned" /\ pc' \in {"reranRows", "reranCols", "raised"}

\* C11 as stated: one more pass after solve() returned changes nothing, that
\* is no domain, no known set and not known_intersects.
ExtraPassChangesNothing ==
    [][ExtraPassStep => (Store' = Store /\ pc' # "raised")]_vars

\* C11: one more pass after solve() returned removes no candidate: every row
\* domain and every column domain is what it was.  The pass only adds lines to
\* the known set of its orientation and triples to known_intersects, and it
\* raises only at an empty domain.
ExtraPassKeepsDomains ==
    [][ExtraPassStep =>
          /\ row_domains' = row_domains
          /\ col_domains' = col_domains
          /\ known_rows \subseteq known_rows'
          /\ known_cols \subseteq known_cols'
          /\ known_intersects \subseteq known_intersects'
          /\ pc' = "raised" =>
                 \E k \in 1 .. size :
                     row_domains[k] = <<>> \/ col_domains[k] = <<>>]_vars

\* A pass was run after solve() returned with the rows known; it made the
\* columns known and recorded triples.
ExtraPassWitness ==
    /\ pc = "reranCols"
    /\ IsPuzzle
    /\ RowsKnown /\ ColsKnown
    /\ round_start # <<>>
    /\ \E t \in known_intersects : ~t[1]
    /\ \E k \in 1 .. size : Len(col_domains[k]) < Len(Generated(cols, k))

-----------------------------------------------------------------------------
(* C12 *)

\* The binomial coefficient C(n, k) by Pascal's rule.
RECURSIVE Binomial(_, _)
Binomial(n, k) ==
    IF k = 0 THEN 1
    ELSE IF n <= 0 THEN 0
    ELSE Binomial(n - 1, k - 1) + Binomial(n - 1, k)

\* C12: count. For nums that fit the line, with k = len(nums), the generated
\* domain has exactly C(N - sum(nums) + 1, k) candidates, all different.
GeneratedCount ==
    (pc = "generated" /\ Fits(size, rows[1])) =>
        /\ Len(row_domains[1]) =
               Binomial(size - SeqSum(rows[1]) + 1, Len(rows[1]))
        /\ Cardinality(Range(row_domains[1])) = Len(row_domains[1])

\* Two blocks with slack: [1, 2] on a line of 6 has C(4, 2) = 6 placements.
GeneratedCountWitness ==
    /\ pc = "generated"
    /\ size = 6
    /\ rows[1] = <<1, 2>>
    /\ Len(row_domains[1]) = 6

-----------------------------------------------------------------------------
(* C13 *)

\* Every domain of one candidate is left as it is by the step.
SolvedStay(before, after) ==
    \A k \in DOMAIN before :
        Len(before[k]) = 1 => (k \in DOMAIN after /\ after[k] = before[k])

\* The lines that enter the known set have a domain of one candidate, and no
\* line leaves the set.
KnownGrows(known, known_after, domains, domains_after) ==
    /\ known \subseteq known_after
    /\ \A i \in known_after \ known :
           Len(domains[i + 1]) = 1 /\ Len(domains_after[i + 1]) = 1

\* C13: solved is terminal. A domain of exactly one candidate is never changed
\* by a later step; a line enters its known set only with a domain of one
\* candidate and never leaves it; so every line in known_rows or known_cols
\* has a domain of exactly one candidate.
SolvedIsTerminal ==
    /\ [][/\ SolvedStay(row_domains, row_domains')
          /\ SolvedStay(col_domains, col_domains')
          /\ KnownGrows(known_rows, known_rows', row_domains, row_domains')
          /\ KnownGrows(known_cols, known_cols', col_domains, col_domains')]_vars
    /\ [](/\ \A i \in known_rows : Len(row_domains[i + 1]) = 1
          /\ \A i \in known_cols : Len(col_domains[i + 1]) = 1)

\* A recorded fact of a known row was applied to a column domain of one
\* candidate that disagrees with it, and the candidate is still there.
SolvedWitness ==
    \E t \in known_intersects :
        /\ t[1]
        /\ t[2] \in known_rows
        /\ Len(col_domains[t[3] + 1]) = 1
        /\ col_domains[t[3] + 1][1][t[2]] # row_domains[t[2] + 1][1][t[3]]

-----------------------------------------------------------------------------
(* C14 *)

\* The line specs a board is a solution of: the runs of its rows and the
\* runs of its columns.
RowSpecsOf(N, board) == [k \in 1 .. N |-> Runs(board[k], N)]
ColSpecsOf(N, board) == [k \in 1 .. N |-> Runs(Column(board, N, k - 1), N)]

\* Candidate sets are kept as sets of pairs <<line, candidate>>.
Candidates(D, i) == {p[2] : p \in {q \in D : q[1] = i}}

\* Whether all candidates of line i agree at cell j.
ForcedAt(D, i, j) ==
    \E v \in BOOLEAN : \A a \in Candidates(D, i) : a[j] = v

\* The candidates B pruned by every forced cell of the candidates A.
PruneBy(A, B, N) ==
    {q \in B :
        \A i \in 0 .. N - 1 :
            ForcedAt(A, i, q[1]) =>
                \A a \in Candidates(A, i) : a[q[1]] = q[2][i]}

\* Pruning the columns by the rows and the rows by the columns, repeated
\* until nothing is pruned.
RECURSIVE Propagated(_, _, _)
Propagated(R, C, N) ==
    LET C2 == PruneBy(R, C, N)
        R2 == PruneBy(C2, R, N)
    IN  IF R2 = R /\ C2 = C THEN <<R, C>> ELSE Propagated(R2, C2, N)

\* Every valid filling of every line of specs, as pairs <<line, filling>>.
AllFillings(N, specs) ==
    UNION {{<<i, f>> : f \in ValidFillings(N, specs[i + 1])} : i \in 0 .. N - 1}

\* Whether this pruning alone brings the puzzle of the solver to singleton
\* rows or to singleton columns.
PropagationSolvable ==
    LET fix == Propagated(AllFillings(size, rows), AllFillings(size, cols),
                          size)
    IN  \/ \A i \in 0 .. size - 1 : Cardinality(Candidates(fix[1], i)) = 1
        \/ \A j \in 0 .. size - 1 : Cardinality(Candidates(fix[2], j)) = 1

\* The body of solve() after the generation: once entered it keeps running.
SolveStep ==
    \/ LoopEnter
    \/ LoopExit
    \/ SkipKnownLine
    \/ ReduceLine
    \/ ApplyIntersect
    \/ RowPassEnd
    \/ ColPassEnd

\* A solver built on a puzzle that has a solution: the puzzle of any board
\* up to MaxSize.
SolvableInit ==
    \E N \in 1 .. MaxSize :
        \E board \in [1 .. N -> [0 .. N - 1 -> BOOLEAN]] :
            Construct(N, RowSpecsOf(N, board), ColSpecsOf(N, board))

\* The solver on the solvable puzzles, solve() running to its end once called.
LiveSpec == SolvableInit /\ [][Next]_vars /\ WF_vars(SolveStep)

\* C14: termination. On a puzzle that has a solution and that propagation
\* alone solves, solve() eventually returns, and every round that is not the
\* last has removed a candidate or added a known line or a known intersect.
Terminates ==
    /\ (InSolve /\ PropagationSolvable) ~> (pc = "returned")
    /\ []((pc = "loop" /\ round_start # <<>> /\ Unsolved /\ PropagationSolvable)
              => Store # round_start)

\* solve() returned on such a puzzle after more than one round.
TerminatesWitness ==
    /\ pc = "returned"
    /\ round_start # <<>>
    /\ round_start[5] # {}
    /\ PropagationSolvable

-----------------------------------------------------------------------------
(* C15 *)

\* C15: stall. When a full round has changed nothing (no candidate removed,
\* nothing added to known_rows, known_cols or known_intersects) and neither
\* known set has size N, solve() enters another round; from then on no step
\* changes the store, solve() neither returns nor raises, and it always has a
\* next step to take.
StallLoops ==
    /\ [][(pc = "loop" /\ round_start = Store /\ ~RowsKnown /\ ~ColsKnown) =>
              (pc' = "rowPass" /\ stalled')]_vars
    /\ [][stalled => (Store' = Store /\ InSolve' /\ stalled')]_vars
    /\ [](stalled => ENABLED SolveStep)

\* In the column pass of a round that follows a round without any change.
StallWitness ==
    /\ stalled
    /\ pc = "colPass"
    /\ line > 0
    /\ IsPuzzle

-----------------------------------------------------------------------------
(* C16 *)

\* All candidates of the domain have value v at cell j.
Agree(domain, j, v) == \A k \in DOMAIN domain : domain[k][j] = v

\* The crossing domain is solved, or holds only candidates with v at cell i.
PrunedOrSingleton(domain_b, i, v) ==
    Len(domain_b) = 1 \/ Agree(domain_b, i, v)

\* Every forced cell of the given lines of A is recorded under the
\* orientation and pruned from the crossing domain of B.
ForcedPropagated(A, B, lines, searching, known) ==
    \A i \in lines, j \in 0 .. size - 1, v \in BOOLEAN :
        Agree(A[i + 1], j, v) =>
            /\ <<searching, i, j>> \in known
            /\ PrunedOrSingleton(B[j + 1], i, v)

\* A pass of solve() has scanned its last line.
PassDone == InPass /\ pending = <<>> /\ line = Len(domains_a)

\* C16: forced cells are propagated within one pass. When a reduceDomains
\* pass has completed, every cell on which all candidates of a line of A
\* agree (the line not being in the known set when the pass started) is
\* recorded in known_intersects under the pass's orientation, and the crossing
\* domain of B is a singleton or holds only candidates with that value; and
\* in every state every recorded triple has its crossing domain a singleton
\* or in agreement with every candidate of the line.
ForcedCellsPropagated ==
    /\ [](PassDone =>
             ForcedPropagated(domains_a, domains_b,
                 (0 .. size - 1) \ (IF pc = "rowPass" THEN round_start[3]
                                    ELSE round_start[4]),
                 is_searching_rows, known_intersects))
    /\ [][/\ (pc = "returned" /\ pc' = "reranRows") =>
                 ForcedPropagated(row_domains', col_domains',
                     (0 .. size - 1) \ known_rows, is_searching_rows,
                     known_intersects')
          /\ (pc = "returned" /\ pc' = "reranCols") =>
                 ForcedPropagated(col_domains', row_domains',
                     (0 .. size - 1) \ known_cols, is_searching_rows,
                     known_intersects')]_vars
    /\ [](\A t \in known_intersects :
             LET A == IF t[1] THEN row_domains ELSE col_domains
                 B == IF t[1] THEN col_domains ELSE row_domains
             IN  \/ Len(B[t[3] + 1]) = 1
                 \/ \A k \in DOMAIN A[t[2] + 1] :
                        Agree(B[t[3] + 1], t[2], A[t[2] + 1][k][t[3]]))

\* A row pass ended with a row of several candidates that agree on a cell;
\* the triple is recorded and the crossing column domain has been pruned.
ForcedCellsWitness ==
    /\ PassDone
    /\ pc = "rowPass"
    /\ IsPuzzle
    /\ \E i \in 0 .. size - 1, j \in 0 .. size - 1, v \in BOOLEAN :
           /\ Len(row_domains[i + 1]) > 1
           /\ Agree(row_domains[i + 1], j, v)
           /\ <<TRUE, i, j>> \in known_intersects
           /\ Len(col_domains[j + 1]) < Len(Generated(cols, j + 1))
           /\ Agree(col_domains[j + 1], i, v)

-----------------------------------------------------------------------------
(* C17 *)

\* How many times x occurs in seq.
Occurrences(seq, x) == Cardinality({k \in DOMAIN seq : seq[k] = x})

\* result is domain restricted to the candidates with value at cell index:
\* all of their occurrences, none of the others, in the order of domain.
KeepsExactly(result, domain, index, value) ==
    /\ IsSubSeq(result, domain)
    /\ \A k \in DOMAIN domain :
           Occurrences(result, domain[k]) =
               IF domain[k][index] = value
               THEN Occurrences(domain, domain[k])
               ELSE 0

\* C17: reduceDomain(domain, index, value) on a domain of more than one
\* candidate (or none) leaves exactly the candidates whose cell index is
\* value, in their order; a domain of one candidate is left as it is whatever
\* its cell; a second call with the same arguments removes nothing.
ReduceDomainFilters ==
    [][pending # <<>> =>
          LET domain == col_domains[1]
              result == col_domains'[1]
              value  == Head(pending)[2]
          IN  /\ Len(domain) # 1 => KeepsExactly(result, domain, line, value)
              /\ Len(domain) = 1 => result = domain
              /\ Len(pending) = 1 => result = domain]_vars

\* Both calls were made; the domain had three candidates, one of them with
\* the other value, and two different candidates are left.
ReduceDomainWitness ==
    /\ rows = <<>>
    /\ pending = <<>>
    /\ Len(round_start[2][1]) = 3
    /\ Len(col_domains[1]) = 2
    /\ col_domains[1][1] # col_domains[1][2]

-----------------------------------------------------------------------------
(* C18 *)

\* The pass with the reduceNeighborDomains call of line 162 left out.
reduceDomainsWithoutNeighbours(a, known_a, b, known, searching) ==
    reduceDomainsFrom([a |-> a, known_a |-> known_a, b |-> b, known |-> known,
                       raised |-> FALSE], 0, searching, FALSE)

\* Both domain lists are as generated by one solve().
OneGeneration == pc # "new" /\ Len(row_domains) = size /\ Len(col_domains) = size

\* C18: the False-only propagation of reduceNeighborDomains does not change
\* the net effect of a pass. The row pass that solve() has just executed left
\* the domains, the known set and known_intersects that the pass without the
\* call leaves from the store at the start of the round; and from every
\* state, a pass over the rows and a pass over the columns give the same
\* domains, known set and known_intersects (and raise alike) with or without
\* the call.
NeighboursRedundant ==
    /\ []((PassDone /\ pc = "rowPass") =>
             LET r == reduceDomainsWithoutNeighbours(round_start[1],
                          round_start[3], round_start[2], round_start[5],
                          is_searching_rows)
             IN  /\ ~r.raised
                 /\ r.a = row_domains
                 /\ r.known_a = known_rows
                 /\ r.b = col_domains
                 /\ r.known = known_intersects)
    /\ [](OneGeneration =>
             /\ reduceDomains(row_domains, known_rows, col_domains,
                              known_intersects, is_searching_rows)
                = reduceDomainsWithoutNeighbours(row_domains, known_rows,
                      col_domains, known_intersects, is_searching_rows)
             /\ reduceDomains(col_domains, known_cols, row_domains,
                              known_intersects, is_searching_rows)
                = reduceDomainsWithoutNeighbours(col_domains, known_cols,
                      row_domains, known_intersects, is_searching_rows))

\* A collapsed line has just pruned its neighbours: the intersect of one of
\* its False cells is still to be applied, and the crossing domain already
\* holds several candidates, fewer than generated, all False at the line.
NeighboursWitness ==
    /\ InPass
    /\ IsPuzzle
    /\ line \in known_domains_a
    /\ \E k \in DOMAIN pending :
           LET crossing == domains_b[pending[k][1] + 1]
           IN  /\ ~pending[k][2]
               /\ Len(crossing) > 1
               /\ Agree(crossing, line, FALSE)
               /\ Len(crossing) <
                      Len(Generated(IF pc = "rowPass" THEN cols ELSE rows,
                                    pending[k][1] + 1))

-----------------------------------------------------------------------------
(* C19 *)

\* solve() is about to call getDomainIntersects on a domain that is not empty.
ScanDue ==
    /\ InPass
    /\ pending = <<>>
    /\ line < Len(domains_a)
    /\ line \notin known_domains_a
    /\ domains_a[line + 1] # <<>>

\* C19: getDomainIntersects(domain, lineIndex) on a non-empty domain returns
\* exactly the pairs (position, value) whose triple (orientation, lineIndex,
\* position) is not in known_intersects and whose value every candidate has
\* at the position; at most one pair per position, none for a recorded
\* position; the domain and known_intersects are left as they are.
IntersectsExact ==
    [][ScanDue =>
          /\ Range(pending') =
                 {p \in (0 .. size - 1) \X BOOLEAN :
                     /\ <<is_searching_rows, line, p[1]>> \notin known_intersects
                     /\ Agree(domains_a[line + 1], p[1], p[2])}
          /\ \A k, h \in DOMAIN pending' :
                 k # h => pending'[k][1] # pending'[h][1]
          /\ \A k \in DOMAIN pending' :
                 <<is_searching_rows, line, pending'[k][1]>> \notin known_intersects
          /\ domains_a' = domains_a
          /\ known_intersects' = known_intersects]_vars

\* The scan of a line visited before: a position after the first reported one
\* was recorded in an earlier round and is not reported again.
IntersectsWitness ==
    /\ InPass
    /\ pending # <<>>
    /\ IsPuzzle
    /\ \E j \in 0 .. size - 1 :
           /\ j > pending[1][1]
           /\ <<is_searching_rows, line, j>> \in known_intersects
           /\ \A k \in DOMAIN pending : pending[k][1] # j

-----------------------------------------------------------------------------
(* C20 *)

\* C20 as stated: domains are generated once. Whatever solve() calls were
\* made, row_domains and col_domains hold N domains each while solve() runs
\* and after it returned, and a board request that passes the readiness test
\* reads only cells (r, c) with 0 <= r, c < N and produces the board.
DomainsGeneratedOnce ==
    /\ (InSolve \/ pc = "returned") =>
           (Len(row_domains) = size /\ Len(col_domains) = size)
    /\ printed.kind \notin {"none", "error"} =>
           /\ printed.kind = "board"
           /\ \A rd \in printed.reads :
                  rd[2] \in 0 .. size - 1 /\ rd[3] \in 0 .. size - 1

====
